---- MODULE Spec2Model ----
(***************************************************************************)
(* The peephole simplification rule catalog of libevmasm/RuleList.h, the   *)
(* matcher and the first-match rewriter that consume it.                   *)
(*                                                                         *)
(* Words are u256 in the source.  The model keeps the modular arithmetic   *)
(* but scales the width: a word has WordBytes bytes of ByteBits bits, so   *)
(* the source's 256, 255, 32, 31, 8, 0xff and 160 become WordBits,         *)
(* WordBits-1, WordBytes, WordBytes-1, ByteBits, ByteMask and AddressBits. *)
(***************************************************************************)
EXTENDS Integers, Sequences, FiniteSets, TLC

\* ------------------------------------------------------------------ bounds
\* Bits of a byte (8 in the source) and bytes of a word (32 in the source).
ByteBits == 1
WordBytes == 3

WordBits == ByteBits * WordBytes

Pow2(n) == 2 ^ n

\* u256 ranges over 0 .. Modulus-1; bigint is unbounded.
Modulus == Pow2(WordBits)
Words == 0 .. (Modulus - 1)
MaxWord == Modulus - 1
ByteMask == Pow2(ByteBits) - 1
\* Bits of an address (160 of 256 in the source): a strict part of the word.
AddressBits == WordBits - 1

\* ------------------------------------------------------------ u256 / bigint
\* A bigint result converted to u256 keeps its low WordBits bits.
u256(v) == v % Modulus

\* u2s that leaves the word as it is.
u2sUnsigned(a) == a

\* u2s: the two's-complement signed view of a word.
u2s(a) == IF a >= Pow2(WordBits - 1) THEN a - Modulus ELSE a

\* s2u: a signed value back to its word.
s2u(v) == v % Modulus

Abs(v) == IF v < 0 THEN -v ELSE v

\* bigint division and remainder truncate toward zero; the remainder takes
\* the dividend's sign.  The cast (S) back to the operand type wraps.
BigDiv(a, b) == IF (a < 0) = (b < 0) THEN Abs(a) \div Abs(b) ELSE -(Abs(a) \div Abs(b))
BigMod(a, b) == IF a < 0 THEN -(Abs(a) % Abs(b)) ELSE Abs(a) % Abs(b)

divWorkaround(a, b) == BigDiv(a, b)
modWorkaround(a, b) == BigMod(a, b)

\* Bit i of a non-negative integer.
Bit(v, i) == (v \div Pow2(i)) % 2

And2(x, y) == IF x = 1 /\ y = 1 THEN 1 ELSE 0
Or2(x, y) == IF x = 1 \/ y = 1 THEN 1 ELSE 0
Xor2(x, y) == IF x # y THEN 1 ELSE 0

RECURSIVE BitAndFrom(_, _, _)
BitAndFrom(a, b, i) ==
    IF i = WordBits THEN 0
    ELSE And2(Bit(a, i), Bit(b, i)) * Pow2(i) + BitAndFrom(a, b, i + 1)
RECURSIVE BitOrFrom(_, _, _)
BitOrFrom(a, b, i) ==
    IF i = WordBits THEN 0
    ELSE Or2(Bit(a, i), Bit(b, i)) * Pow2(i) + BitOrFrom(a, b, i + 1)
RECURSIVE BitXorFrom(_, _, _)
BitXorFrom(a, b, i) ==
    IF i = WordBits THEN 0
    ELSE Xor2(Bit(a, i), Bit(b, i)) * Pow2(i) + BitXorFrom(a, b, i + 1)

BitAnd(a, b) == BitAndFrom(a, b, 0)
BitOr(a, b) == BitOrFrom(a, b, 0)
BitXor(a, b) == BitXorFrom(a, b, 0)
BitNot(a) == MaxWord - a

\* boost::multiprecision::powm(a, b, m): modular exponentiation.
RECURSIVE powm(_, _, _)
powm(a, b, m) == IF b = 0 THEN 1 % m ELSE (a * powm(a, b - 1, m)) % m

\* ------------------------------------------------------- Pattern / ExprNode
\* One record shape serves expressions, patterns and rule right-hand sides:
\*   k = "const": a constant word w
\*   k = "op":    opcode op applied to the children ch
\*   k = "ph":    placeholder op (A, B, C: constants only; X, Y: any expression)
\*   k = "calc":  (right-hand side only) the constant the rule's closure
\*                computes from A.d(), B.d(), C.d(); op names the closure
\*   k = "cond":  (right-hand side only) if (A.d() < B.d()) ch[1] else ch[2],
\*                or with op = "B<A" the test B.d() < A.d()
\*   k = "none":  no expression (an unbound placeholder, "no change")
Const(v) == [k |-> "const", op |-> "", w |-> v, ch |-> << >>]
Op(o, children) == [k |-> "op", op |-> o, w |-> 0, ch |-> children]
Placeholder(id) == [k |-> "ph", op |-> id, w |-> 0, ch |-> << >>]
Calc(f) == [k |-> "calc", op |-> f, w |-> 0, ch |-> << >>]
Cond(test, then, else) == [k |-> "cond", op |-> test, w |-> 0, ch |-> <<then, else>>]
None == [k |-> "none", op |-> "", w |-> 0, ch |-> << >>]

A == Placeholder("A")
B == Placeholder("B")
C == Placeholder("C")
X == Placeholder("X")
Y == Placeholder("Y")

ConstantOnly == {"A", "B", "C"}
AnyExpression == {"X", "Y"}
PlaceholderIds == ConstantOnly \cup AnyExpression

SimplificationRule(lhs, action, removable) ==
    [lhs |-> lhs, action |-> action, removable |-> removable]

\* ------------------------------------------- closures of the folding rules
\* The value each "arithmetic on constants" closure returns, from the words
\* a = A.d(), b = B.d(), c = C.d(), computed as the closure computes it.
RuleBYTE(a, b) ==
    IF a >= WordBytes THEN 0
    ELSE (b \div Pow2(ByteBits * ((WordBytes - 1) - a))) % Pow2(ByteBits)

\* SIGNEXTEND that clears the bits above the test bit whatever the test bit.
RuleSIGNEXTENDClears(a, b) ==
    IF a >= WordBytes - 1 THEN b
    ELSE LET testBit == a * ByteBits + (ByteBits - 1)
             mask == Pow2(testBit) - 1
         IN  BitAnd(b, mask)

RuleSIGNEXTEND(a, b) ==
    IF a >= WordBytes - 1 THEN b
    ELSE LET testBit == a * ByteBits + (ByteBits - 1)
             mask == Pow2(testBit) - 1
         IN  IF Bit(b, testBit) = 1 THEN BitOr(b, BitNot(mask)) ELSE BitAnd(b, mask)

RuleSHL(a, b) == IF a > WordBits - 1 THEN 0 ELSE u256(b * Pow2(a))
RuleSHR(a, b) == IF a > WordBits - 1 THEN 0 ELSE b \div Pow2(a)

\* ADDMOD without the case of a zero modulus.
RuleADDMODUnguarded(a, b, c) == IF c = 0 THEN u256(a + b) ELSE u256((a + b) % c)
RuleADDMOD(a, b, c) == IF c = 0 THEN 0 ELSE u256((a + b) % c)
RuleMULMOD(a, b, c) == IF c = 0 THEN 0 ELSE u256((a * b) % c)
\* The second rule with left-hand side MULMOD(A, B, C): A.d() * B.d() in u256.
RuleMULMOD2(a, b, c) == u256(a * b)

FoldValue(f, a, b, c) ==
    CASE f = "ADD" -> u256(a + b)
      [] f = "SADD" -> u256(a + b)
      [] f = "MUL" -> u256(a * b)
      [] f = "SMUL" -> u256(a * b)
      [] f = "SUB" -> u256(a - b)
      [] f = "SSUB" -> u256(a - b)
      [] f = "DIV" -> IF b = 0 THEN 0 ELSE u256(divWorkaround(a, b))
      [] f = "SDIV" -> IF b = 0 THEN 0 ELSE s2u(divWorkaround(u2s(a), u2s(b)))
      [] f = "MOD" -> IF b = 0 THEN 0 ELSE u256(modWorkaround(a, b))
      [] f = "SMOD" -> IF b = 0 THEN 0 ELSE s2u(modWorkaround(u2s(a), u2s(b)))
      [] f = "EXP" -> u256(powm(a, b, Modulus))
      [] f = "NOT" -> BitNot(a)
      [] f = "LT" -> IF a < b THEN 1 ELSE 0
      [] f = "GT" -> IF a > b THEN 1 ELSE 0
      [] f = "SLT" -> IF u2s(a) < u2s(b) THEN 1 ELSE 0
      [] f = "SGT" -> IF u2s(a) > u2s(b) THEN 1 ELSE 0
      [] f = "EQ" -> IF a = b THEN 1 ELSE 0
      [] f = "ISZERO" -> IF a = 0 THEN 1 ELSE 0
      [] f = "AND" -> BitAnd(a, b)
      [] f = "OR" -> BitOr(a, b)
      [] f = "XOR" -> BitXor(a, b)
      [] f = "BYTE" -> RuleBYTE(a, b)
      [] f = "ADDMOD" -> RuleADDMOD(a, b, c)
      [] f = "MULMOD" -> RuleMULMOD(a, b, c)
      [] f = "MULMOD2" -> RuleMULMOD2(a, b, c)
      [] f = "SIGNEXTEND" -> RuleSIGNEXTEND(a, b)
      [] f = "SHL" -> RuleSHL(a, b)
      [] f = "SHR" -> RuleSHR(a, b)
      \* the combiners of simplificationRuleListPart2's associative operations
      [] f = "plus" -> u256(a + b)
      [] f = "multiplies" -> u256(a * b)
      [] f = "bit_and" -> BitAnd(a, b)
      [] f = "bit_or" -> BitOr(a, b)
      [] f = "bit_xor" -> BitXor(a, b)
      \* closures of simplificationRuleListPart2's ADD/SUB rules
      [] f = "B-A" -> u256(b - a)
      [] f = "A-B" -> u256(a - b)
      [] f = "A+B" -> u256(a + b)

\* A folding rule: opcode op on constant placeholders, replaced by the
\* constant its closure computes.
Fold(op, children) == SimplificationRule(Op(op, children), Calc(op), FALSE)

\* --------------------------------------------- simplificationRuleListPart1
\* arithmetic on constants
FoldingRulesHead == <<
    Fold("ADD", <<A, B>>),
    Fold("SADD", <<A, B>>),
    Fold("MUL", <<A, B>>),
    Fold("SMUL", <<A, B>>),
    Fold("SUB", <<A, B>>),
    Fold("SSUB", <<A, B>>),
    Fold("DIV", <<A, B>>),
    Fold("SDIV", <<A, B>>),
    Fold("MOD", <<A, B>>),
    Fold("SMOD", <<A, B>>),
    Fold("EXP", <<A, B>>),
    Fold("NOT", <<A>>),
    Fold("LT", <<A, B>>),
    Fold("GT", <<A, B>>),
    Fold("SLT", <<A, B>>),
    Fold("SGT", <<A, B>>),
    Fold("EQ", <<A, B>>),
    Fold("ISZERO", <<A>>),
    Fold("AND", <<A, B>>),
    Fold("OR", <<A, B>>),
    Fold("XOR", <<A, B>>),
    Fold("BYTE", <<A, B>>),
    Fold("ADDMOD", <<A, B, C>>)
>>

\* The two rules with left-hand side MULMOD(A, B, C), in the source's order.
\* The two MULMOD rules pushed in the opposite order.
MulmodRulesSwapped == <<
    SimplificationRule(Op("MULMOD", <<A, B, C>>), Calc("MULMOD2"), FALSE),
    Fold("MULMOD", <<A, B, C>>)
>>

MulmodRules == <<
    Fold("MULMOD", <<A, B, C>>),
    SimplificationRule(Op("MULMOD", <<A, B, C>>), Calc("MULMOD2"), FALSE)
>>

FoldingRulesTail == <<
    Fold("SIGNEXTEND", <<A, B>>),
    Fold("SHL", <<A, B>>),
    Fold("SHR", <<A, B>>)
>>

FoldingRules == FoldingRulesHead \o MulmodRules \o FoldingRulesTail

\* X op c -> X and c op X -> X
\* X op c -> X with the removable flag set.
KeepLeftFlagged(op, c) == SimplificationRule(Op(op, <<X, Const(c)>>), X, TRUE)
KeepLeft(op, c) == SimplificationRule(Op(op, <<X, Const(c)>>), X, FALSE)
KeepRight(op, c) == SimplificationRule(Op(op, <<Const(c), X>>), X, FALSE)
\* X op c -> r and c op X -> r, discarding X
\* X op c -> r with the removable flag left out.
DropLeftUnflagged(op, c, r) == SimplificationRule(Op(op, <<X, Const(c)>>), Const(r), FALSE)
DropLeft(op, c, r) == SimplificationRule(Op(op, <<X, Const(c)>>), Const(r), TRUE)
DropRight(op, c, r) == SimplificationRule(Op(op, <<Const(c), X>>), Const(r), TRUE)

KnownConstantRules == <<
    KeepLeft("ADD", 0),
    KeepRight("ADD", 0),
    KeepLeft("SADD", 0),
    KeepRight("SADD", 0),
    KeepLeft("SUB", 0),
    KeepLeft("SSUB", 0),
    DropLeft("MUL", 0, 0),
    DropRight("MUL", 0, 0),
    KeepLeft("MUL", 1),
    KeepRight("MUL", 1),
    SimplificationRule(Op("MUL", <<X, Const(MaxWord)>>), Op("SUB", <<Const(0), X>>), FALSE),
    SimplificationRule(Op("MUL", <<Const(MaxWord), X>>), Op("SUB", <<Const(0), X>>), FALSE),
    DropLeft("SMUL", 0, 0),
    DropRight("SMUL", 0, 0),
    KeepLeft("SMUL", 1),
    KeepRight("SMUL", 1),
    SimplificationRule(Op("SMUL", <<X, Const(MaxWord)>>), Op("SSUB", <<Const(0), X>>), FALSE),
    SimplificationRule(Op("SMUL", <<Const(MaxWord), X>>), Op("SSUB", <<Const(0), X>>), FALSE),
    DropLeft("DIV", 0, 0),
    DropRight("DIV", 0, 0),
    KeepLeft("DIV", 1),
    DropLeft("SDIV", 0, 0),
    DropRight("SDIV", 0, 0),
    KeepLeft("SDIV", 1),
    KeepLeft("AND", MaxWord),
    KeepRight("AND", MaxWord),
    DropLeft("AND", 0, 0),
    DropRight("AND", 0, 0),
    KeepLeft("OR", 0),
    KeepRight("OR", 0),
    DropLeft("OR", MaxWord, MaxWord),
    DropRight("OR", MaxWord, MaxWord),
    KeepLeft("XOR", 0),
    KeepRight("XOR", 0),
    DropLeft("MOD", 0, 0),
    DropRight("MOD", 0, 0),
    SimplificationRule(Op("EQ", <<X, Const(0)>>), Op("ISZERO", <<X>>), FALSE),
    SimplificationRule(Op("EQ", <<Const(0), X>>), Op("ISZERO", <<X>>), FALSE)
>>

\* operations involving an expression and itself
\* The operations on the same expression, the first written over X and Y.
SelfRulesTwoOperands == <<
    SimplificationRule(Op("AND", <<X, Y>>), X, TRUE),
    SimplificationRule(Op("OR", <<X, X>>), X, TRUE),
    SimplificationRule(Op("XOR", <<X, X>>), Const(0), TRUE),
    SimplificationRule(Op("SUB", <<X, X>>), Const(0), TRUE),
    SimplificationRule(Op("SSUB", <<X, X>>), Const(0), TRUE),
    SimplificationRule(Op("EQ", <<X, X>>), Const(1), TRUE),
    SimplificationRule(Op("LT", <<X, X>>), Const(0), TRUE),
    SimplificationRule(Op("SLT", <<X, X>>), Const(0), TRUE),
    SimplificationRule(Op("GT", <<X, X>>), Const(0), TRUE),
    SimplificationRule(Op("SGT", <<X, X>>), Const(0), TRUE),
    SimplificationRule(Op("MOD", <<X, X>>), Const(0), TRUE)
>>

SelfRules == <<
    SimplificationRule(Op("AND", <<X, X>>), X, TRUE),
    SimplificationRule(Op("OR", <<X, X>>), X, TRUE),
    SimplificationRule(Op("XOR", <<X, X>>), Const(0), TRUE),
    SimplificationRule(Op("SUB", <<X, X>>), Const(0), TRUE),
    SimplificationRule(Op("SSUB", <<X, X>>), Const(0), TRUE),
    SimplificationRule(Op("EQ", <<X, X>>), Const(1), TRUE),
    SimplificationRule(Op("LT", <<X, X>>), Const(0), TRUE),
    SimplificationRule(Op("SLT", <<X, X>>), Const(0), TRUE),
    SimplificationRule(Op("GT", <<X, X>>), Const(0), TRUE),
    SimplificationRule(Op("SGT", <<X, X>>), Const(0), TRUE),
    SimplificationRule(Op("MOD", <<X, X>>), Const(0), TRUE)
>>

\* logical instruction combinations
LogicalRules == <<
    SimplificationRule(Op("NOT", <<Op("NOT", <<X>>)>>), X, FALSE),
    SimplificationRule(Op("XOR", <<X, Op("XOR", <<X, Y>>)>>), Y, TRUE),
    SimplificationRule(Op("XOR", <<X, Op("XOR", <<Y, X>>)>>), Y, TRUE),
    SimplificationRule(Op("XOR", <<Op("XOR", <<X, Y>>), X>>), Y, TRUE),
    SimplificationRule(Op("XOR", <<Op("XOR", <<Y, X>>), X>>), Y, TRUE),
    SimplificationRule(Op("OR", <<X, Op("AND", <<X, Y>>)>>), X, TRUE),
    SimplificationRule(Op("OR", <<X, Op("AND", <<Y, X>>)>>), X, TRUE),
    SimplificationRule(Op("OR", <<Op("AND", <<X, Y>>), X>>), X, TRUE),
    SimplificationRule(Op("OR", <<Op("AND", <<Y, X>>), X>>), X, TRUE),
    SimplificationRule(Op("AND", <<X, Op("OR", <<X, Y>>)>>), X, TRUE),
    SimplificationRule(Op("AND", <<X, Op("OR", <<Y, X>>)>>), X, TRUE),
    SimplificationRule(Op("AND", <<Op("OR", <<X, Y>>), X>>), X, TRUE),
    SimplificationRule(Op("AND", <<Op("OR", <<Y, X>>), X>>), X, TRUE),
    SimplificationRule(Op("AND", <<X, Op("NOT", <<X>>)>>), Const(0), TRUE),
    SimplificationRule(Op("AND", <<Op("NOT", <<X>>), X>>), Const(0), TRUE),
    SimplificationRule(Op("OR", <<X, Op("NOT", <<X>>)>>), Const(MaxWord), TRUE),
    SimplificationRule(Op("OR", <<Op("NOT", <<X>>), X>>), Const(MaxWord), TRUE)
>>

\* Part 1 with the arithmetic on constants pushed last.
simplificationRuleListPart1FoldingLast ==
    KnownConstantRules \o SelfRules \o LogicalRules \o FoldingRules

simplificationRuleListPart1 ==
    FoldingRules \o KnownConstantRules \o SelfRules \o LogicalRules

\* --------------------------------------------- simplificationRuleListPart2
\* Replace MOD X, <power-of-two> with AND X, <power-of-two> - 1
\* MOD X, <power-of-two> replaced with AND X, <power-of-two>.
ModPowerOfTwoRuleUnmasked(i) ==
    LET value == Pow2(i)
    IN  SimplificationRule(Op("MOD", <<X, Const(value)>>),
                           Op("AND", <<X, Const(value)>>), FALSE)

ModPowerOfTwoRule(i) ==
    LET value == Pow2(i)
    IN  SimplificationRule(Op("MOD", <<X, Const(value)>>),
                           Op("AND", <<X, Const(value - 1)>>), FALSE)

AddressOps == <<"ADDRESS", "CALLER", "ORIGIN", "COINBASE">>

\* The address mask rules with the mask on the right in both.
AddressMaskRulesOneOrder(op) ==
    LET mask == Pow2(AddressBits) - 1
    IN  << SimplificationRule(Op("AND", <<Op(op, << >>), Const(mask)>>), Op(op, << >>), FALSE),
           SimplificationRule(Op("AND", <<Op(op, << >>), Const(mask)>>), Op(op, << >>), FALSE) >>

AddressMaskRules(op) ==
    LET mask == Pow2(AddressBits) - 1
    IN  << SimplificationRule(Op("AND", <<Op(op, << >>), Const(mask)>>), Op(op, << >>), FALSE),
           SimplificationRule(Op("AND", <<Const(mask), Op(op, << >>)>>), Op(op, << >>), FALSE) >>

\* Double negation of opcodes with boolean result
\* The opcodes with boolean result, with ADD in the place of SGT.
BooleanOpsWithAdd == <<"EQ", "LT", "SLT", "GT", "ADD">>

BooleanOps == <<"EQ", "LT", "SLT", "GT", "SGT">>

\* The double negation rule rebuilding the comparison from X alone.
DoubleNegationRuleRepeated(op) ==
    SimplificationRule(Op("ISZERO", <<Op("ISZERO", <<Op(op, <<X, Y>>)>>)>>),
                       Op(op, <<X, X>>), FALSE)

DoubleNegationRule(op) ==
    SimplificationRule(Op("ISZERO", <<Op("ISZERO", <<Op(op, <<X, Y>>)>>)>>),
                       Op(op, <<X, Y>>), FALSE)

TripleIsZeroRule ==
    SimplificationRule(Op("ISZERO", <<Op("ISZERO", <<Op("ISZERO", <<X>>)>>)>>),
                       Op("ISZERO", <<X>>), FALSE)

IsZeroXorRule ==
    SimplificationRule(Op("ISZERO", <<Op("XOR", <<X, Y>>)>>), Op("EQ", <<X, Y>>), FALSE)

\* Associative operations: the opcode and its combiner
AssociativeOps == <<
    <<"ADD", "plus">>,
    <<"SADD", "plus">>,
    <<"MUL", "multiplies">>,
    <<"SMUL", "multiplies">>,
    <<"AND", "bit_and">>,
    <<"OR", "bit_or">>,
    <<"XOR", "bit_xor">>
>>

\* xa can be (X, A) or (A, X)
XAOrders == << <<X, A>>, <<A, X>> >>

\* The four rules with the rules for non-constants added before the rules
\* for constants.
AssociativeRulesFloatFirst(op, fun, xa) == <<
    SimplificationRule(Op(op, <<Op(op, xa), Y>>), Op(op, <<Op(op, <<X, Y>>), A>>), FALSE),
    SimplificationRule(Op(op, <<Op(op, xa), B>>), Op(op, <<X, Calc(fun)>>), FALSE),
    SimplificationRule(Op(op, <<Y, Op(op, xa)>>), Op(op, <<Op(op, <<Y, X>>), A>>), FALSE),
    SimplificationRule(Op(op, <<B, Op(op, xa)>>), Op(op, <<X, Calc(fun)>>), FALSE)
>>

\* The four rules with the last one building (X+Y)+A from Y+(X+A).
AssociativeRulesReordered(op, fun, xa) == <<
    SimplificationRule(Op(op, <<Op(op, xa), B>>), Op(op, <<X, Calc(fun)>>), FALSE),
    SimplificationRule(Op(op, <<Op(op, xa), Y>>), Op(op, <<Op(op, <<X, Y>>), A>>), FALSE),
    SimplificationRule(Op(op, <<B, Op(op, xa)>>), Op(op, <<X, Calc(fun)>>), FALSE),
    SimplificationRule(Op(op, <<Y, Op(op, xa)>>), Op(op, <<Op(op, <<X, Y>>), A>>), FALSE)
>>

\* The four rules one xa contributes for one associative operation.
AssociativeRules(op, fun, xa) == <<
    \* (X+A)+B -> X+(A+B)
    SimplificationRule(Op(op, <<Op(op, xa), B>>), Op(op, <<X, Calc(fun)>>), FALSE),
    \* (X+A)+Y -> (X+Y)+A
    SimplificationRule(Op(op, <<Op(op, xa), Y>>), Op(op, <<Op(op, <<X, Y>>), A>>), FALSE),
    \* B+(X+A) -> X+(A+B)
    SimplificationRule(Op(op, <<B, Op(op, xa)>>), Op(op, <<X, Calc(fun)>>), FALSE),
    \* Y+(X+A) -> (Y+X)+A
    SimplificationRule(Op(op, <<Y, Op(op, xa)>>), Op(op, <<Op(op, <<Y, X>>), A>>), FALSE)
>>

AddSubPairs == << <<"ADD", "SUB">>, <<"SADD", "SSUB">> >>

\* The two rules with the first one testing B < A.
AddSubXARulesTestSwapped(add, sub, xa) == <<
    SimplificationRule(Op(sub, <<Op(add, xa), B>>),
        Cond("B<A", Op(sub, <<X, Calc("B-A")>>), Op(add, <<X, Calc("A-B")>>)), FALSE),
    SimplificationRule(Op(sub, <<B, Op(add, xa)>>), Op(sub, <<Calc("B-A"), X>>), FALSE)
>>

\* The two rules one xa contributes for one (add, sub) pair.
AddSubXARules(add, sub, xa) == <<
    \* (X + A) - B -> X + (A - B), X - (B - A)
    SimplificationRule(Op(sub, <<Op(add, xa), B>>),
        Cond("A<B", Op(sub, <<X, Calc("B-A")>>), Op(add, <<X, Calc("A-B")>>)), FALSE),
    \* B - (X + A) -> (B - A) - X
    SimplificationRule(Op(sub, <<B, Op(add, xa)>>), Op(sub, <<Calc("B-A"), X>>), FALSE)
>>

\* The four rules with B - (X - A) -> (A + B) - X in place of the third.
AddSubRulesWithReversed(add, sub) == <<
    SimplificationRule(Op(add, <<Op(sub, <<X, A>>), B>>),
        Cond("B<A", Op(sub, <<X, Calc("A-B")>>), Op(add, <<X, Calc("B-A")>>)), FALSE),
    SimplificationRule(Op(add, <<B, Op(sub, <<X, A>>)>>),
        Cond("B<A", Op(sub, <<X, Calc("A-B")>>), Op(add, <<X, Calc("B-A")>>)), FALSE),
    SimplificationRule(Op(sub, <<B, Op(sub, <<X, A>>)>>), Op(sub, <<Calc("A+B"), X>>), FALSE),
    SimplificationRule(Op(sub, <<Op(sub, <<A, X>>), B>>), Op(sub, <<Calc("A-B"), X>>), FALSE)
>>

AddSubRules(add, sub) == <<
    \* (X - A) + B -> X + (B - A), X - (A - B)
    SimplificationRule(Op(add, <<Op(sub, <<X, A>>), B>>),
        Cond("B<A", Op(sub, <<X, Calc("A-B")>>), Op(add, <<X, Calc("B-A")>>)), FALSE),
    \* B + (X - A) -> X + (B - A), X - (A - B)
    SimplificationRule(Op(add, <<B, Op(sub, <<X, A>>)>>),
        Cond("B<A", Op(sub, <<X, Calc("A-B")>>), Op(add, <<X, Calc("B-A")>>)), FALSE),
    \* (X - A) - B -> X - (A + B)
    SimplificationRule(Op(sub, <<Op(sub, <<X, A>>), B>>), Op(sub, <<X, Calc("A+B")>>), FALSE),
    \* (A - X) - B -> (A - B) - X
    SimplificationRule(Op(sub, <<Op(sub, <<A, X>>), B>>), Op(sub, <<Calc("A-B"), X>>), FALSE)
>>

\* The rules moving constants across subtractions with the last one moving
\* a constant back into the subtraction.
MoveAcrossSubRulesInverted(add, sub) == <<
    SimplificationRule(Op(sub, <<Op(add, <<X, A>>), Y>>), Op(add, <<Op(sub, <<X, Y>>), A>>), FALSE),
    SimplificationRule(Op(sub, <<Op(add, <<A, X>>), Y>>), Op(add, <<Op(sub, <<X, Y>>), A>>), FALSE),
    SimplificationRule(Op(sub, <<X, Op(add, <<Y, A>>)>>), Op(sub, <<Op(sub, <<X, Y>>), A>>), FALSE),
    \* (X - Y) + A -> (X + A) - Y
    SimplificationRule(Op(add, <<Op(sub, <<X, Y>>), A>>), Op(sub, <<Op(add, <<X, A>>), Y>>), FALSE)
>>

\* move constants across subtractions
MoveAcrossSubRules(add, sub) == <<
    \* (X + A) - Y -> (X - Y) + A
    SimplificationRule(Op(sub, <<Op(add, <<X, A>>), Y>>), Op(add, <<Op(sub, <<X, Y>>), A>>), FALSE),
    \* (A + X) - Y -> (X - Y) + A
    SimplificationRule(Op(sub, <<Op(add, <<A, X>>), Y>>), Op(add, <<Op(sub, <<X, Y>>), A>>), FALSE),
    \* X - (Y + A) -> (X - Y) - A
    SimplificationRule(Op(sub, <<X, Op(add, <<Y, A>>)>>), Op(sub, <<Op(sub, <<X, Y>>), A>>), FALSE),
    \* X - (A + Y) -> (X - Y) - A
    SimplificationRule(Op(sub, <<X, Op(add, <<A, Y>>)>>), Op(sub, <<Op(sub, <<X, Y>>), A>>), FALSE)
>>

\* The rules a loop pushes: pushed[j] is the sequence of the `each` rules
\* the j-th iteration pushes.
LoopRules(each, pushed) ==
    [h \in 1 .. Len(pushed) * each |-> pushed[((h - 1) \div each) + 1][((h - 1) % each) + 1]]

\* The loop over the powers of two stopping one short.
ModPowerOfTwoLoopShort ==
    LoopRules(1,
        [j \in 1 .. WordBits - 1 |->
             <<ModPowerOfTwoRule(j - 1)>>])

\* for (size_t i = 0; i < 256; ++i)
ModPowerOfTwoLoop ==
    LoopRules(1,
        [j \in 1 .. WordBits |->
             <<ModPowerOfTwoRule(j - 1)>>])

\* for (auto const& op: {ADDRESS, CALLER, ORIGIN, COINBASE})
AddressLoop ==
    LoopRules(2,
        [j \in 1 .. Len(AddressOps) |->
             AddressMaskRules(AddressOps[j])])

\* for (auto const& op: {EQ, LT, SLT, GT, SGT})
BooleanLoop ==
    LoopRules(1,
        [j \in 1 .. Len(BooleanOps) |->
             <<DoubleNegationRule(BooleanOps[j])>>])

\* for (auto const& opFun: ...) for (auto xa: {{X, A}, {A, X}})
AssociativeLoop ==
    LoopRules(8,
        [j \in 1 .. Len(AssociativeOps) |->
             AssociativeRules(AssociativeOps[j][1], AssociativeOps[j][2], XAOrders[1])
             \o AssociativeRules(AssociativeOps[j][1], AssociativeOps[j][2], XAOrders[2])])

\* for (auto const& add_sub: {{ADD, SUB}, {SADD, SSUB}})
AddSubLoop ==
    LoopRules(12,
        [j \in 1 .. Len(AddSubPairs) |->
             AddSubXARules(AddSubPairs[j][1], AddSubPairs[j][2], XAOrders[1])
             \o AddSubXARules(AddSubPairs[j][1], AddSubPairs[j][2], XAOrders[2])
             \o AddSubRules(AddSubPairs[j][1], AddSubPairs[j][2])
             \o MoveAcrossSubRules(AddSubPairs[j][1], AddSubPairs[j][2])])

simplificationRuleListPart2 ==
    ModPowerOfTwoLoop
        \o AddressLoop
        \o BooleanLoop
        \o <<TripleIsZeroRule, IsZeroXorRule>>
        \o AssociativeLoop
        \o AddSubLoop

\* ----------------------------------------------------- simplificationRuleList
simplificationRuleList == simplificationRuleListPart1 \o simplificationRuleListPart2

\* ------------------------------------------------------------------ Matcher
\* A binding maps every placeholder id to the expression it is bound to, or
\* to None while it is unbound.
EmptyBinding == [id \in PlaceholderIds |-> None]
MatchFailure == [ok |-> FALSE, b |-> EmptyBinding]

RECURSIVE MatchPattern(_, _, _)
RECURSIVE MatchChildren(_, _, _, _)
\* Match pattern p against subject s, extending the match state st.
MatchPattern(p, s, st) ==
    IF ~st.ok THEN MatchFailure
    ELSE IF p.k = "const" THEN
        IF s.k = "const" /\ s.w = p.w THEN st ELSE MatchFailure
    ELSE IF p.k = "ph" THEN
        IF p.op \in ConstantOnly /\ s.k # "const" THEN MatchFailure
        ELSE IF st.b[p.op] # None THEN
            (IF st.b[p.op] = s THEN st ELSE MatchFailure)
        ELSE [ok |-> TRUE, b |-> [st.b EXCEPT ![p.op] = s]]
    ELSE IF p.k = "op" /\ s.k = "op" /\ s.op = p.op /\ Len(s.ch) = Len(p.ch) THEN
        MatchChildren(p.ch, s.ch, 1, st)
    ELSE MatchFailure

\* Children are matched left to right.
MatchChildren(ps, ss, j, st) ==
    IF j > Len(ps) THEN st
    ELSE CHOOSE out \in {MatchChildren(ps, ss, j + 1, m) :
                             m \in {MatchPattern(ps[j], ss[j], st)}} : TRUE

Match(pattern, subject) ==
    MatchPattern(pattern, subject, [ok |-> TRUE, b |-> EmptyBinding])

\* ------------------------------------------------------- the rules' closures
\* A.d(): the word a constant placeholder is bound to.
d(e) == e.w

\* The replacement a rule's closure builds under binding b.
RECURSIVE RunAction(_, _)
RunAction(rhs, b) ==
    IF rhs.k = "ph" THEN b[rhs.op]
    ELSE IF rhs.k = "calc" THEN Const(FoldValue(rhs.op, d(b["A"]), d(b["B"]), d(b["C"])))
    ELSE IF rhs.k = "cond" THEN
        IF rhs.op = "A<B"
        THEN (IF d(b["A"]) < d(b["B"]) THEN RunAction(rhs.ch[1], b) ELSE RunAction(rhs.ch[2], b))
        ELSE (IF d(b["B"]) < d(b["A"]) THEN RunAction(rhs.ch[1], b) ELSE RunAction(rhs.ch[2], b))
    ELSE IF rhs.k = "op" THEN Op(rhs.op, [i \in 1 .. Len(rhs.ch) |-> RunAction(rhs.ch[i], b)])
    ELSE rhs

\* How often placeholder id occurs in a pattern or right-hand side (a
\* conditional right-hand side counts its fuller branch).
RECURSIVE Occurrences(_, _)
RECURSIVE OccurrencesIn(_, _, _)
Occurrences(p, id) ==
    IF p.k = "ph" THEN (IF p.op = id THEN 1 ELSE 0)
    ELSE IF p.k = "cond" THEN
        LET t == Occurrences(p.ch[1], id)
            e == Occurrences(p.ch[2], id)
        IN  IF t >= e THEN t ELSE e
    ELSE OccurrencesIn(p.ch, id, 1)
OccurrencesIn(ps, id, j) ==
    IF j > Len(ps) THEN 0 ELSE Occurrences(ps[j], id) + OccurrencesIn(ps, id, j + 1)

\* The same count with a conditional right-hand side counting its barer branch.
RECURSIVE MinOccurrences(_, _)
RECURSIVE MinOccurrencesIn(_, _, _)
MinOccurrences(p, id) ==
    IF p.k = "ph" THEN (IF p.op = id THEN 1 ELSE 0)
    ELSE IF p.k = "cond" THEN
        LET t == MinOccurrences(p.ch[1], id)
            e == MinOccurrences(p.ch[2], id)
        IN  IF t <= e THEN t ELSE e
    ELSE MinOccurrencesIn(p.ch, id, 1)
MinOccurrencesIn(ps, id, j) ==
    IF j > Len(ps) THEN 0 ELSE MinOccurrences(ps[j], id) + MinOccurrencesIn(ps, id, j + 1)

\* ----------------------------------------------------------------- Rewriter
\* The caller's predicate: a subtree is side-effect safe unless it holds an
\* opcode the caller names unsafe.
RECURSIVE sideEffectSafe(_, _)
sideEffectSafe(e, unsafeOps) ==
    IF e.k = "op"
    THEN e.op \notin unsafeOps /\ \A i \in 1 .. Len(e.ch) : sideEffectSafe(e.ch[i], unsafeOps)
    ELSE TRUE

\* A removable rule is legal when every matched AnyExpression placeholder that
\* the right-hand side does not reference binds a side-effect-free subtree.
DiscardsOnlySafe(rule, b, unsafeOps) ==
    \A id \in AnyExpression :
        (b[id] # None /\ Occurrences(rule.action, id) = 0) => sideEffectSafe(b[id], unsafeOps)

RuleApplies(rule, subj, unsafeOps) ==
    \E m \in {Match(rule.lhs, subj)} :
        m.ok /\ (rule.removable => DiscardsOnlySafe(rule, m.b, unsafeOps))

\* The index of the first rule of the list that applies, 0 when none does.
FirstMatch(rs, subj, unsafeOps) ==
    CHOOSE first \in
        {IF hits = {} THEN 0 ELSE CHOOSE n \in hits : \A m \in hits : n <= m :
            hits \in {{n \in 1 .. Len(rs) : RuleApplies(rs[n], subj, unsafeOps)}}} : TRUE

\* apply(subject, sideEffectSafe): the replacement and the rule that made it,
\* or None ("no change") and 0.
apply(rs, subj, unsafeOps) ==
    CHOOSE r \in
        {[applied |-> n,
          result |-> IF n = 0 THEN None
                     ELSE RunAction(rs[n].action, Match(rs[n].lhs, subj).b)] :
            n \in {FirstMatch(rs, subj, unsafeOps)}} : TRUE

\* ------------------------------------------------ reference Word semantics
\* The Word operations as the EVM defines them, used as the reference the
\* rules are compared with.  S-prefixed opcodes evaluate like their base.
as_signed(a) == IF a < Pow2(WordBits - 1) THEN a ELSE a - Modulus
from_signed(v) == (v + Modulus) % Modulus
TruncQuot(x, y) ==
    LET q == Abs(x) \div Abs(y) IN IF (x < 0 /\ y > 0) \/ (x > 0 /\ y < 0) THEN 0 - q ELSE q
TruncRem(x, y) == x - y * TruncQuot(x, y)

WordSignExtend(k, v) ==
    IF k >= WordBytes - 1 THEN v
    ELSE LET signBit == ByteBits * k + ByteBits - 1
             low == v % Pow2(signBit + 1)
         IN  IF low >= Pow2(signBit) THEN low + (Modulus - Pow2(signBit + 1)) ELSE low

BaseOpcode(op) ==
    CASE op = "SADD" -> "ADD"
      [] op = "SSUB" -> "SUB"
      [] op = "SMUL" -> "MUL"
      [] OTHER -> op

\* The word opcode op yields on the argument words v.
WordOp(op, v) ==
    LET o == BaseOpcode(op)
    IN  CASE o = "ADD" -> (v[1] + v[2]) % Modulus
          [] o = "SUB" -> (v[1] + Modulus - v[2]) % Modulus
          [] o = "MUL" -> (v[1] * v[2]) % Modulus
          [] o = "DIV" -> IF v[2] = 0 THEN 0 ELSE v[1] \div v[2]
          [] o = "MOD" -> IF v[2] = 0 THEN 0 ELSE v[1] % v[2]
          [] o = "SDIV" -> IF v[2] = 0 THEN 0
                           ELSE from_signed(TruncQuot(as_signed(v[1]), as_signed(v[2])))
          [] o = "SMOD" -> IF v[2] = 0 THEN 0
                           ELSE from_signed(TruncRem(as_signed(v[1]), as_signed(v[2])))
          [] o = "EXP" -> powm(v[1], v[2], Modulus)
          [] o = "NOT" -> BitXor(v[1], MaxWord)
          [] o = "LT" -> IF v[1] < v[2] THEN 1 ELSE 0
          [] o = "GT" -> IF v[2] < v[1] THEN 1 ELSE 0
          [] o = "SLT" -> IF as_signed(v[1]) < as_signed(v[2]) THEN 1 ELSE 0
          [] o = "SGT" -> IF as_signed(v[2]) < as_signed(v[1]) THEN 1 ELSE 0
          [] o = "EQ" -> IF v[1] = v[2] THEN 1 ELSE 0
          [] o = "ISZERO" -> IF v[1] = 0 THEN 1 ELSE 0
          [] o = "AND" -> BitAnd(v[1], v[2])
          [] o = "OR" -> BitOr(v[1], v[2])
          [] o = "XOR" -> BitXor(v[1], v[2])
          [] o = "BYTE" -> IF v[1] >= WordBytes THEN 0
                           ELSE (v[2] \div Pow2(ByteBits * (WordBytes - 1 - v[1]))) % Pow2(ByteBits)
          [] o = "ADDMOD" -> IF v[3] = 0 THEN 0 ELSE (v[1] + v[2]) % v[3]
          [] o = "MULMOD" -> IF v[3] = 0 THEN 0 ELSE (v[1] * v[2]) % v[3]
          [] o = "SIGNEXTEND" -> WordSignExtend(v[1], v[2])
          [] o = "SHL" -> IF v[1] > WordBits - 1 THEN 0 ELSE (v[2] * Pow2(v[1])) % Modulus
          [] o = "SHR" -> IF v[1] > WordBits - 1 THEN 0 ELSE v[2] \div Pow2(v[1])

\* Expressions the reference evaluator covers: constants under word opcodes.
RECURSIVE Evaluable(_)
Evaluable(e) ==
    \/ e.k = "const"
    \/ e.k = "op" /\ Len(e.ch) > 0 /\ \A i \in 1 .. Len(e.ch) : Evaluable(e.ch[i])

RECURSIVE Eval(_)
Eval(e) ==
    IF e.k = "const" THEN e.w
    ELSE WordOp(e.op, [i \in 1 .. Len(e.ch) |-> Eval(e.ch[i])])

\* -------------------------------------------------------------------- state
VARIABLES
    pc,       \* "ready", "inspected" (a rule was read) or "rewritten"
    subject,  \* the expression handed to the rewriter
    unsafe,   \* the opcodes the caller's sideEffectSafe predicate rejects
    ruleNo,   \* the catalog rule read, or tried on the subject on its own
    matched,  \* whether that rule's left-hand side matches the subject
    direct,   \* the replacement that rule's closure builds, None if not run
    applied,  \* the rule apply used (first match), 0 for "no change"
    result    \* the replacement apply returned, None for "no change"

vars == <<pc, subject, unsafe, ruleNo, matched, direct, applied, result>>

\* ------------------------------------------------------------------- inputs
\* The words constants are drawn from: the smallest, the largest and the
\* sign bit.
InputWords ==
    {w \in Words : w <= 1 \/ w >= MaxWord - 1 \/ w = Pow2(WordBits - 1)}

\* The words the arithmetic on constants is tried on: the words next to
\* zero, next to the sign bit and next to the largest word.
FoldWords ==
    {w \in Words : \/ w <= 3
                   \/ w >= MaxWord - 2
                   \/ (w >= Pow2(WordBits - 1) - 1 /\ w <= Pow2(WordBits - 1) + 1)}

\* The opcode whose result the caller may declare side-effecting.
UnsafeCandidates == {"CALLER"}

\* The expressions X and Y are bound to: constants, an opcode without
\* operands, and operations on them.
ExprPool ==
    {Const(w) : w \in InputWords}
        \cup {Op("CALLER", << >>),
              Op("NOT", <<Op("CALLER", << >>)>>),
              Op("ADD", <<Const(1), Const(MaxWord - 1)>>)}

\* The placeholders of each kind a pattern holds.
PlaceholdersOf(p, kind) == {id \in kind : Occurrences(p, id) > 0}

\* The expression a pattern stands for under constants bc and expressions be.
RECURSIVE Substitute(_, _, _)
Substitute(p, bc, be) ==
    IF p.k = "ph" THEN (IF p.op \in ConstantOnly THEN Const(bc[p.op]) ELSE be[p.op])
    ELSE IF p.k = "op" THEN Op(p.op, [j \in 1 .. Len(p.ch) |-> Substitute(p.ch[j], bc, be)])
    ELSE p

\* The binding that gives the constant placeholders the words bc and the
\* expression placeholders the expressions be.
BindingOf(bc, be) ==
    [id \in PlaceholderIds |->
        IF id \in DOMAIN bc THEN Const(bc[id])
        ELSE IF id \in DOMAIN be THEN be[id]
        ELSE None]

\* The catalog the rewriter and its callers hold.
catalog == simplificationRuleList

\* ------------------------------------------------------------------ actions
Init ==
    /\ pc = "ready"
    /\ subject = None
    /\ unsafe = {}
    /\ ruleNo = 0
    /\ matched = FALSE
    /\ direct = None
    /\ applied = 0
    /\ result = None

\* A caller iterates the catalog and reads rule n: (lhs, action, removable).
Inspect ==
    /\ pc = "ready"
    /\ \E n \in 1 .. Len(catalog) : ruleNo' = n
    /\ pc' = "inspected"
    /\ UNCHANGED <<subject, unsafe, matched, direct, applied, result>>

\* One rewrite attempt on subj under the caller's predicate.  Beside it,
\* catalog rule n alone: whether its left-hand side matches subj, and the
\* replacement its closure builds with its placeholders bound as in b.
Rewrite(subj, unsafeOps, n, b) ==
    LET r == apply(catalog, subj, unsafeOps)
    IN  /\ subject' = subj
        /\ unsafe' = unsafeOps
        /\ ruleNo' = n
        /\ matched' = Match(catalog[n].lhs, subj).ok
        /\ direct' = IF b = EmptyBinding THEN None ELSE RunAction(catalog[n].action, b)
        /\ applied' = r.applied
        /\ result' = r.result
        /\ pc' = "rewritten"

\* The subject is an instance of a catalog rule's left-hand side.
RewriteInstance ==
    /\ pc = "ready"
    /\ \E n \in 1 .. Len(catalog) :
         \E bc \in [PlaceholdersOf(catalog[n].lhs, ConstantOnly) -> InputWords] :
           \E be \in [PlaceholdersOf(catalog[n].lhs, AnyExpression) -> ExprPool] :
             \E u \in SUBSET UnsafeCandidates :
               Rewrite(Substitute(catalog[n].lhs, bc, be), u, n, BindingOf(bc, be))

\* The subject is an opcode of the arithmetic on constants, on constants.
RewriteFolding ==
    /\ pc = "ready"
    /\ \E n \in 1 .. Len(FoldingRules) :
         \E bc \in [PlaceholdersOf(catalog[n].lhs, ConstantOnly) -> FoldWords] :
           \E be \in [PlaceholdersOf(catalog[n].lhs, AnyExpression) -> ExprPool] :
             Rewrite(Substitute(catalog[n].lhs, bc, be), {}, n, BindingOf(bc, be))

\* The subject is a constant.
RewriteConstant ==
    /\ pc = "ready"
    /\ \E w \in InputWords, n \in 1 .. Len(catalog), u \in SUBSET UnsafeCandidates :
         Rewrite(Const(w), u, n, EmptyBinding)

\* The subject is the root opcode of a catalog rule that combines two
\* expression placeholders, on two operands of the pool.
RewritePair ==
    /\ pc = "ready"
    /\ \E n \in 1 .. Len(catalog) :
         /\ Len(catalog[n].lhs.ch) = 2
         /\ catalog[n].lhs.ch[1] \in {X, Y}
         /\ catalog[n].lhs.ch[2] \in {X, Y}
         /\ \E e1 \in ExprPool, e2 \in ExprPool, u \in SUBSET UnsafeCandidates :
              Rewrite(Op(catalog[n].lhs.op, <<e1, e2>>), u, n, EmptyBinding)

\* The subject is an instance of the left-hand side of a subtraction rule
\* with the two operands of the subtraction exchanged.
RewriteReversed ==
    /\ pc = "ready"
    /\ \E n \in 1 .. Len(catalog) :
         /\ catalog[n].lhs.op \in {"SUB", "SSUB"}
         /\ Len(catalog[n].lhs.ch) = 2
         /\ \E bc \in [PlaceholdersOf(catalog[n].lhs, ConstantOnly) -> InputWords] :
              \E be \in [PlaceholdersOf(catalog[n].lhs, AnyExpression) -> ExprPool] :
                \E u \in SUBSET UnsafeCandidates :
                  LET instance == Substitute(catalog[n].lhs, bc, be)
                  IN  Rewrite(Op(instance.op, <<instance.ch[2], instance.ch[1]>>),
                              u, n, EmptyBinding)

\* The subject is the opcode of a catalog rule with one operand, applied
\* twice to an operand of the pool.
RewriteTwice ==
    /\ pc = "ready"
    /\ \E n \in 1 .. Len(catalog) :
         /\ Len(catalog[n].lhs.ch) = 1
         /\ \E e \in ExprPool, u \in SUBSET UnsafeCandidates :
              Rewrite(Op(catalog[n].lhs.op, <<Op(catalog[n].lhs.op, <<e>>)>>),
                      u, n, EmptyBinding)

\* The caller takes the outcome; the rewriter is ready for the next subject.
Return ==
    /\ pc \in {"inspected", "rewritten"}
    /\ pc' = "ready"
    /\ subject' = None
    /\ unsafe' = {}
    /\ ruleNo' = 0
    /\ matched' = FALSE
    /\ direct' = None
    /\ applied' = 0
    /\ result' = None

Next ==
    \/ Inspect
    \/ RewriteInstance
    \/ RewriteFolding
    \/ RewriteReversed
    \/ RewriteTwice
    \/ RewriteConstant
    \/ RewritePair
    \/ Return

Spec == Init /\ [][Next]_vars

\* ------------------------------------------------------------------- driver
\* The driver repeats rewriting until nothing changes.  It keeps the tree it
\* was handed in subject and the tree rewritten so far in result; applied is
\* the rule of the last rewrite.  Every subtree counts as sideEffectSafe.

\* The places of the nodes of e, each the sequence of child indices to it.
RECURSIVE Paths(_)
Paths(e) ==
    {<< >>} \cup UNION {{<<j>> \o p : p \in Paths(e.ch[j])} : j \in 1 .. Len(e.ch)}

RECURSIVE NodeAt(_, _)
NodeAt(e, path) ==
    IF path = << >> THEN e ELSE NodeAt(e.ch[path[1]], Tail(path))

RECURSIVE ReplaceAt(_, _, _)
ReplaceAt(e, path, new) ==
    IF path = << >> THEN new
    ELSE Op(e.op, [e.ch EXCEPT ![path[1]] = ReplaceAt(e.ch[path[1]], Tail(path), new)])

\* The nodes of e at which some rule applies.
Rewritable(e) == {p \in Paths(e) : apply(catalog, NodeAt(e, p), {}).applied # 0}

\* The trees the driver is started on: three operations of the additive and
\* multiplicative opcodes over two opcodes without operands and a constant,
\* balanced or nested on one side.
DriverOps == {"ADD", "SUB", "MUL"}
DriverLeaves == {Op("CALLER", << >>), Op("ORIGIN", << >>), Const(2)}
DriverPairs == {Op(o, <<l, r>>) : o \in DriverOps, l \in DriverLeaves, r \in DriverLeaves}
DriverTrees ==
    {Op(o, <<l, r>>) : o \in DriverOps, l \in DriverPairs, r \in DriverPairs}
        \cup {Op(o1, <<Op(o2, <<p, l>>), r>>) :
                o1 \in DriverOps, o2 \in DriverOps, p \in DriverPairs,
                l \in DriverLeaves, r \in DriverLeaves}
        \cup {Op(o1, <<l, Op(o2, <<r, p>>)>>) :
                o1 \in DriverOps, o2 \in DriverOps, p \in DriverPairs,
                l \in DriverLeaves, r \in DriverLeaves}

DriverInit ==
    /\ pc = "ready"
    /\ subject = None
    /\ unsafe = {}
    /\ ruleNo = 0
    /\ matched = FALSE
    /\ direct = None
    /\ applied = 0
    /\ result = None

\* The driver is handed a tree.
DriverStart ==
    /\ pc = "ready"
    /\ \E e \in DriverTrees :
         /\ subject' = e
         /\ result' = e
    /\ pc' = "driving"
    /\ UNCHANGED <<unsafe, ruleNo, matched, direct, applied>>

\* One rewrite at a node where a rule applies.
DriverRewrite ==
    /\ pc = "driving"
    /\ \E p \in Paths(result) :
         \E r \in {apply(catalog, NodeAt(result, p), {})} :
             /\ r.applied # 0
             /\ result' = ReplaceAt(result, p, r.result)
             /\ applied' = r.applied
    /\ UNCHANGED <<pc, subject, unsafe, ruleNo, matched, direct>>

\* A pass changed nothing: no rule applies at any node.
DriverSettle ==
    /\ pc = "driving"
    /\ Rewritable(result) = {}
    /\ pc' = "fixed"
    /\ UNCHANGED <<subject, unsafe, ruleNo, matched, direct, applied, result>>

DriverNext ==
    \/ DriverStart
    \/ DriverRewrite
    \/ DriverSettle

\* The driver goes on while a rule applies somewhere.
DriverSpec == DriverInit /\ [][DriverNext]_vars /\ WF_vars(DriverNext)

\* ------------------------------------------------------------------- claims
\* How often t occurs as a subtree of e.
RECURSIVE CountSubtree(_, _)
RECURSIVE CountSubtreeIn(_, _, _)
CountSubtree(e, t) ==
    IF e = t THEN 1 ELSE CountSubtreeIn(e.ch, t, 1)
CountSubtreeIn(es, t, j) ==
    IF j > Len(es) THEN 0 ELSE CountSubtree(es[j], t) + CountSubtreeIn(es, t, j + 1)

\* The AnyExpression placeholders of a pattern, left to right; a conditional
\* right-hand side is read by its first branch.
RECURSIVE PlaceholderOrder(_)
RECURSIVE PlaceholderOrderIn(_, _)
PlaceholderOrder(p) ==
    IF p.k = "ph" THEN (IF p.op \in AnyExpression THEN <<p.op>> ELSE << >>)
    ELSE IF p.k = "cond" THEN PlaceholderOrder(p.ch[1])
    ELSE PlaceholderOrderIn(p.ch, 1)
PlaceholderOrderIn(ps, j) ==
    IF j > Len(ps) THEN << >> ELSE PlaceholderOrder(ps[j]) \o PlaceholderOrderIn(ps, j + 1)

\* Whether the first a stands left of the first b in the pattern.
Before(p, a, b) ==
    LET o == PlaceholderOrder(p)
        first(id) == CHOOSE j \in 1 .. Len(o) : o[j] = id /\ \A h \in 1 .. j - 1 : o[h] # id
    IN  first(a) < first(b)

\* Whether the children of a pattern are all constant placeholders.
AllConstantOnly(p) ==
    /\ p.k = "op"
    /\ Len(p.ch) > 0
    /\ \A j \in 1 .. Len(p.ch) : p.ch[j].k = "ph" /\ p.ch[j].op \in ConstantOnly

AllConstants(e) ==
    /\ e.k = "op"
    /\ Len(e.ch) > 0
    /\ \A j \in 1 .. Len(e.ch) : e.ch[j].k = "const"

ChildWords(e) == [j \in 1 .. Len(e.ch) |-> e.ch[j].w]

\* C1: when apply returns a replacement, every subtree the applied rule bound
\* to X or Y that is not sideEffectSafe occurs in the replacement at least as
\* often as in the subject (no evaluation of an unsafe operand is dropped).
C1_NoUnsafeEvaluationDropped ==
    (pc = "rewritten" /\ applied # 0) =>
        LET m == Match(catalog[applied].lhs, subject)
        IN  \A id \in AnyExpression :
                (m.b[id] # None /\ ~sideEffectSafe(m.b[id], unsafe)) =>
                    CountSubtree(result, m.b[id]) >= CountSubtree(subject, m.b[id])

\* The rule a caller has read from the catalog.
Inspected == catalog[ruleNo]

\* C2 as stated: in every removable rule of the catalog, no AnyExpression
\* placeholder of the left-hand side occurs in the right-hand side.
C2_RemovableReferencesNone ==
    (pc = "inspected" /\ Inspected.removable) =>
        \A id \in AnyExpression :
            Occurrences(Inspected.lhs, id) > 0 => Occurrences(Inspected.action, id) = 0

\* C2 amended: every removable rule of the catalog discards an occurrence of
\* an AnyExpression placeholder: some X or Y occurs in the right-hand side
\* fewer times than in the left-hand side (not necessarily zero times).
C2_RemovableDiscardsOccurrence ==
    (pc = "inspected" /\ Inspected.removable) =>
        \E id \in AnyExpression :
            Occurrences(Inspected.action, id) < Occurrences(Inspected.lhs, id)

\* A removable rule was read that keeps X on its right-hand side while
\* matching it twice, beside a placeholder it drops.
C2_Witness ==
    /\ pc = "inspected"
    /\ Inspected.removable
    /\ Occurrences(Inspected.lhs, "X") = 2
    /\ Occurrences(Inspected.action, "X") = 1
    /\ Occurrences(Inspected.lhs, "Y") = 1
    /\ Occurrences(Inspected.action, "Y") = 0

\* C3: every rule of the catalog that is not removable references in its
\* right-hand side (in each branch of it) every AnyExpression placeholder of
\* its left-hand side.
C3_NonRemovableKeepsAll ==
    (pc = "inspected" /\ ~Inspected.removable) =>
        \A id \in AnyExpression :
            Occurrences(Inspected.lhs, id) > 0 => MinOccurrences(Inspected.action, id) > 0

\* A non-removable rule over X with a conditional right-hand side was read.
C3_Witness ==
    /\ pc = "inspected"
    /\ ~Inspected.removable
    /\ Occurrences(Inspected.lhs, "X") > 0
    /\ Inspected.action.k = "cond"

\* C4: in every catalog rule whose right-hand side holds both X and Y, X and
\* Y stand in the same left-to-right order as in the left-hand side.
C4_OperandOrderKept ==
    (/\ pc = "inspected"
     /\ Occurrences(Inspected.action, "X") > 0
     /\ Occurrences(Inspected.action, "Y") > 0) =>
        /\ Occurrences(Inspected.lhs, "X") > 0
        /\ Occurrences(Inspected.lhs, "Y") > 0
        /\ Before(Inspected.action, "X", "Y") = Before(Inspected.lhs, "X", "Y")

\* A constant-floating rule was read that has Y left of X on both sides
\* (Y+(A+X) -> (Y+X)+A).
C4_Witness ==
    /\ pc = "inspected"
    /\ Occurrences(Inspected.action, "X") > 0
    /\ Occurrences(Inspected.action, "Y") > 0
    /\ Before(Inspected.lhs, "Y", "X")
    /\ Before(Inspected.action, "Y", "X")
    /\ Inspected.lhs.ch[2].ch[1] = A

\* C5: for every catalog rule whose left-hand side children are all constant
\* placeholders and every binding of them to words, the constant the rule's
\* closure computes is the value of the left-hand side's opcode on the bound
\* words under the Word semantics.
C5_FoldingAgreesWithWordSemantics ==
    (pc = "rewritten" /\ direct # None /\ AllConstantOnly(catalog[ruleNo].lhs)) =>
        direct = Const(WordOp(subject.op, ChildWords(subject)))

\* C6: for every catalog rule whose left-hand side holds X or Y and every
\* assignment of words to its placeholders, the left-hand side and the
\* replacement the rule builds evaluate to the same word.
C6_RuleKeepsValue ==
    (/\ pc = "rewritten"
     /\ direct # None
     /\ \E id \in AnyExpression : Occurrences(catalog[ruleNo].lhs, id) > 0
     /\ Evaluable(subject)) =>
        /\ Evaluable(direct)
        /\ Eval(direct) = Eval(subject)

\* A rule with a conditional right-hand side was run on constants on each of
\* its branches, and so was a rule over X and Y.
C6_Witness ==
    /\ pc = "rewritten"
    /\ direct # None
    /\ Evaluable(subject)
    /\ catalog[ruleNo].action.k = "cond"
    /\ subject.op = "SUB"
    /\ direct.op = "ADD"
    /\ direct.ch[2].w > 1
    /\ Eval(subject) > 1

\* The catalog positions of the rules with left-hand side MULMOD(A, B, C).
MulmodRuleNos == {n \in 1 .. Len(catalog) : catalog[n].lhs = Op("MULMOD", <<A, B, C>>)}

\* C7: apply on MULMOD(a, b, c) over constants returns the constant
\* (a*b) mod c of the full-width product, 0 when c = 0, and the rule applied
\* is the first of the two catalog rules with left-hand side MULMOD(A,B,C),
\* never the second.
C7_MulmodFirstRuleApplied ==
    (/\ pc = "rewritten"
     /\ subject.op = "MULMOD"
     /\ AllConstants(subject)) =>
        LET a == subject.ch[1].w
            b == subject.ch[2].w
            c == subject.ch[3].w
        IN  /\ Cardinality(MulmodRuleNos) = 2
            /\ applied \in MulmodRuleNos
            /\ \A n \in MulmodRuleNos : applied <= n
            /\ result = Const(IF c = 0 THEN 0 ELSE (a * b) % c)

\* MULMOD was rewritten on constants whose product exceeds the word and
\* whose wrapped product differs from the result.
C7_Witness ==
    /\ pc = "rewritten"
    /\ subject.op = "MULMOD"
    /\ AllConstants(subject)
    /\ subject.ch[1].w * subject.ch[2].w > MaxWord
    /\ subject.ch[3].w > 1
    /\ result.k = "const"
    /\ result.w # u256(subject.ch[1].w * subject.ch[2].w)

\* Whether the catalog has an arithmetic-on-constants rule for the opcode
\* and arity of e.
HasFoldingRule(e) ==
    \E n \in 1 .. Len(catalog) :
        /\ AllConstantOnly(catalog[n].lhs)
        /\ catalog[n].lhs.op = e.op
        /\ Len(catalog[n].lhs.ch) = Len(e.ch)

\* C8: one apply on an opcode that has a constant-folding rule, over constant
\* children, returns a constant made by a rule whose left-hand side is all
\* constant placeholders, whatever the predicate; apply on a constant
\* returns no change.
C8_FoldingIdempotent ==
    /\ (pc = "rewritten" /\ AllConstants(subject) /\ HasFoldingRule(subject)) =>
            /\ applied # 0
            /\ AllConstantOnly(catalog[applied].lhs)
            /\ result.k = "const"
    /\ (pc = "rewritten" /\ subject.k = "const") =>
            /\ applied = 0
            /\ result = None

\* AND of a constant and zero was folded although an absorption rule
\* matches it too, under a predicate that calls something unsafe.
C8_Witness ==
    /\ pc = "rewritten"
    /\ subject = Op("AND", <<Const(MaxWord), Const(0)>>)
    /\ unsafe # {}
    /\ applied # 0
    /\ result = Const(0)
    /\ \E n \in 1 .. Len(catalog) :
            ~AllConstantOnly(catalog[n].lhs) /\ Match(catalog[n].lhs, subject).ok

\* The catalog positions of the operations on the same expression.
SelfRuleNos ==
    LET first == Len(FoldingRules) + Len(KnownConstantRules)
    IN  first + 1 .. first + Len(SelfRules)

\* C9: a self-combination rule (AND(X,X) and the others) matches
\* Op(e1, e2) of its opcode if and only if e1 and e2 are structurally equal.
C9_NonLinearMatching ==
    (/\ pc = "rewritten"
     /\ ruleNo \in SelfRuleNos
     /\ subject.k = "op"
     /\ subject.op = catalog[ruleNo].lhs.op
     /\ Len(subject.ch) = 2) =>
        (matched <=> subject.ch[1] = subject.ch[2])

\* A self-combination rule did not match two operands that differ
\* structurally but evaluate to the same word.
C9_Witness ==
    /\ pc = "rewritten"
    /\ ruleNo \in SelfRuleNos
    /\ subject.op = catalog[ruleNo].lhs.op
    /\ Len(subject.ch) = 2
    /\ subject.ch[1] # subject.ch[2]
    /\ subject.ch[1].k = "op"
    /\ Evaluable(subject)
    /\ Eval(subject.ch[1]) = Eval(subject.ch[2])
    /\ ~matched

CommutativeOps == {"ADD", "SADD", "MUL", "SMUL", "AND", "OR", "XOR", "EQ"}

\* The patterns got from p by swapping, at one place, the two different
\* children of a commutative opcode.
RECURSIVE SwapVariants(_)
SwapVariants(p) ==
    IF p.k # "op" THEN {}
    ELSE (IF p.op \in CommutativeOps /\ Len(p.ch) = 2 /\ p.ch[1] # p.ch[2]
          THEN {Op(p.op, <<p.ch[2], p.ch[1]>>)} ELSE {})
         \cup UNION {{Op(p.op, [p.ch EXCEPT ![j] = v]) : v \in SwapVariants(p.ch[j])} :
                        j \in 1 .. Len(p.ch)}

\* The renamings of placeholders that keep each placeholder's kind.
Renamings ==
    {f \in [PlaceholderIds -> PlaceholderIds] :
        /\ \A id \in ConstantOnly : f[id] \in ConstantOnly
        /\ \A id \in AnyExpression : f[id] \in AnyExpression
        /\ \A id1, id2 \in PlaceholderIds : f[id1] = f[id2] => id1 = id2}

RECURSIVE Rename(_, _)
Rename(p, f) ==
    IF p.k = "ph" THEN Placeholder(f[p.op])
    ELSE IF p.k = "op" THEN Op(p.op, [j \in 1 .. Len(p.ch) |-> Rename(p.ch[j], f)])
    ELSE p

\* Whether the catalog has a rule with left-hand side v, up to a renaming,
\* and the given removable flag.
InCatalog(v, removable) ==
    \E n \in 1 .. Len(catalog) : \E f \in Renamings :
        /\ Rename(catalog[n].lhs, f) = v
        /\ catalog[n].removable = removable

\* C10: for every catalog rule and every commutative opcode of its left-hand
\* side applied to two different children, the catalog has a rule whose
\* left-hand side has those children swapped, up to renaming placeholders of
\* the same kind, with the same removable flag.
C10_BothOrderingsPresent ==
    pc = "inspected" =>
        \A v \in SwapVariants(Inspected.lhs) : InCatalog(v, Inspected.removable)

\* A rule was read whose left-hand side has two commutative places, and a
\* swap of it that is no renaming of the rule itself.
C10_Witness ==
    /\ pc = "inspected"
    /\ Cardinality(SwapVariants(Inspected.lhs)) = 2
    /\ \E v \in SwapVariants(Inspected.lhs) :
            /\ \A f \in Renamings : Rename(Inspected.lhs, f) # v
            /\ InCatalog(v, Inspected.removable)

\* The opcodes whose last operand divides.
DivisorOps == {"DIV", "MOD", "SDIV", "SMOD", "ADDMOD", "MULMOD"}

\* C11: apply on DIV, MOD, SDIV, SMOD, ADDMOD or MULMOD over constants with
\* a zero divisor or modulus folds to the constant 0, by a rule of the
\* arithmetic on constants.
C11_ZeroDivisorFoldsToZero ==
    (/\ pc = "rewritten"
     /\ subject.op \in DivisorOps
     /\ AllConstants(subject)
     /\ subject.ch[Len(subject.ch)].w = 0) =>
        /\ applied \in 1 .. Len(FoldingRules)
        /\ result = Const(0)

\* ADDMOD with modulus zero was folded on operands whose sum is not zero,
\* and the rule walked beside it computed 0 too.
C11_Witness ==
    /\ pc = "rewritten"
    /\ subject.op = "ADDMOD"
    /\ AllConstants(subject)
    /\ subject.ch[3].w = 0
    /\ u256(subject.ch[1].w + subject.ch[2].w) # 0
    /\ result = Const(0)
    /\ ruleNo = applied
    /\ direct = Const(0)

\* The signed value a word stands for in two's complement.
SignedValue(w) == IF w >= Pow2(WordBits - 1) THEN w - Modulus ELSE w

\* q and r are the quotient and remainder of a by b truncated toward zero:
\* the remainder is smaller than the divisor and has the dividend's sign.
TruncatedDivision(a, b, q, r) ==
    /\ a = q * b + r
    /\ (IF r < 0 THEN -r ELSE r) < (IF b < 0 THEN -b ELSE b)
    /\ (r = 0 \/ (r < 0) = (a < 0))

\* C12: apply on SDIV(a, b) and SMOD(a, b) over constants with b # 0 gives
\* the word of the quotient, respectively the remainder, of the signed
\* values of a and b truncated toward zero; SDIV(INT_MIN, -1) is INT_MIN.
C12_SignedDivisionTruncates ==
    (/\ pc = "rewritten"
     /\ subject.op \in {"SDIV", "SMOD"}
     /\ AllConstants(subject)
     /\ subject.ch[2].w # 0) =>
        LET a == SignedValue(subject.ch[1].w)
            b == SignedValue(subject.ch[2].w)
        IN  \E q \in -Pow2(WordBits - 1) .. Pow2(WordBits - 1) :
                /\ TruncatedDivision(a, b, q, a - q * b)
                /\ result = Const(IF subject.op = "SDIV" THEN q % Modulus
                                  ELSE (a - q * b) % Modulus)

\* SDIV(INT_MIN, -1) was folded to INT_MIN.
C12_Witness ==
    /\ pc = "rewritten"
    /\ subject = Op("SDIV", <<Const(Pow2(WordBits - 1)), Const(MaxWord)>>)
    /\ result = Const(Pow2(WordBits - 1))

\* C13: apply on SIGNEXTEND(k, v) over constants gives v when k is at least
\* the index of the word's last byte (31); otherwise the word whose bits up
\* to the sign bit 8k+7 are those of v and whose bits above it all equal
\* that bit of v.
C13_SignExtendCopiesSignBit ==
    (/\ pc = "rewritten"
     /\ subject.op = "SIGNEXTEND"
     /\ AllConstants(subject)) =>
        LET k == subject.ch[1].w
            v == subject.ch[2].w
            signBit == ByteBits * k + (ByteBits - 1)
        IN  IF k >= WordBytes - 1 THEN result = Const(v)
            ELSE /\ result.k = "const"
                 /\ \A i \in 0 .. WordBits - 1 :
                        Bit(result.w, i) = IF i <= signBit THEN Bit(v, i) ELSE Bit(v, signBit)

\* SIGNEXTEND(0, v) with v the all-ones byte was folded to the all-ones word.
C13_Witness ==
    /\ pc = "rewritten"
    /\ subject = Op("SIGNEXTEND", <<Const(0), Const(ByteMask)>>)
    /\ result = Const(MaxWord)
    /\ result # subject.ch[2]

\* The catalog positions of the MOD-by-power-of-two rules.
ModRuleNos ==
    Len(simplificationRuleListPart1) + 1 ..
        Len(simplificationRuleListPart1) + Len(ModPowerOfTwoLoop)

IsPowerOfTwo(c) == \E i \in 0 .. WordBits - 1 : c = Pow2(i)

\* C14: apply on MOD(x, c) with x not a constant and c = 2^i, 0 <= i < 256,
\* returns AND(x, c - 1) by a rule that is not removable, whatever the
\* predicate; for a constant c that is neither 0 nor a power of two no rule
\* of this family is applied.
C14_ModPowerOfTwoBecomesMask ==
    (/\ pc = "rewritten"
     /\ subject.op = "MOD"
     /\ subject.ch[1].k = "op"
     /\ subject.ch[2].k = "const"
     /\ subject.ch[2].w # 0) =>
        IF IsPowerOfTwo(subject.ch[2].w)
        THEN /\ applied \in ModRuleNos
             /\ ~catalog[applied].removable
             /\ result = Op("AND", <<subject.ch[1], Const(subject.ch[2].w - 1)>>)
        ELSE /\ applied \notin ModRuleNos
             /\ result = None

\* MOD of an operand the predicate rejects by the largest power of two was
\* rewritten to the mask of all lower bits.
C14_Witness ==
    /\ pc = "rewritten"
    /\ subject = Op("MOD", <<Op("CALLER", << >>), Const(Pow2(WordBits - 1))>>)
    /\ unsafe = {"CALLER"}
    /\ result = Op("AND", <<Op("CALLER", << >>), Const(Pow2(WordBits - 1) - 1)>>)

\* Whether e is an operation on exactly one constant and one operation.
MixedPair(e) ==
    /\ e.k = "op"
    /\ Len(e.ch) = 2
    /\ {e.ch[1].k, e.ch[2].k} = {"const", "op"}

ConstantChild(e) == IF e.ch[1].k = "const" THEN e.ch[1] ELSE e.ch[2]
OperationChild(e) == IF e.ch[1].k = "op" THEN e.ch[1] ELSE e.ch[2]

\* Whether e is op(op(x,a),b), op(op(a,x),b), op(b,op(x,a)) or op(b,op(a,x))
\* for one opcode op, constants a, b and an operation x.
NestedWithConstants(e) ==
    /\ MixedPair(e)
    /\ MixedPair(OperationChild(e))
    /\ OperationChild(e).op = e.op

\* The catalog positions of the rules on one known constant operand
\* (identities such as ADD(X,0) -> X, absorptions such as MUL(X,0) -> 0).
KnownConstantRuleNos ==
    Len(FoldingRules) + 1 .. Len(FoldingRules) + Len(KnownConstantRules)

\* The catalog positions of the absorption laws OR(X, AND(X,Y)) -> X and
\* AND(X, OR(X,Y)) -> X in their four orderings.
AbsorptionLawNos ==
    LET first == Len(FoldingRules) + Len(KnownConstantRules) + Len(SelfRules)
    IN  {n \in first + 1 .. first + Len(LogicalRules) :
            /\ catalog[n].lhs.op \in {"AND", "OR"}
            /\ \E j \in 1 .. Len(catalog[n].lhs.ch) :
                 catalog[n].lhs.ch[j].k = "op" /\ catalog[n].lhs.ch[j].op \in {"AND", "OR"}}

\* Whether no identity or absorption rule matches e.
NoIdentityOrAbsorptionMatch(e) ==
    \A n \in KnownConstantRuleNos \cup AbsorptionLawNos : ~Match(catalog[n].lhs, e).ok

\* Whether e is XOR of a constant with XOR of the same constant and an
\* operation: the subjects of the XOR cancellation rules.
XorOfEqualConstants(e) ==
    /\ e.op = "XOR"
    /\ ConstantChild(e) = ConstantChild(OperationChild(e))

\* The combiner of an associative opcode on two words.
Combined(op, a, b) ==
    CASE op \in {"ADD", "SADD"} -> (a + b) % Modulus
      [] op \in {"MUL", "SMUL"} -> (a * b) % Modulus
      [] op = "AND" -> BitAnd(a, b)
      [] op = "OR" -> BitOr(a, b)
      [] op = "XOR" -> BitXor(a, b)

\* C15 as stated: for an associative opcode op, an operation x and
\* constants a, b such that no identity or absorption rule matches, apply on
\* op(op(x,a),b), op(op(a,x),b), op(b,op(x,a)) and op(b,op(a,x)) returns
\* op(x, Constant(fn(a,b))).
C15_ConstantsCombinedFirst ==
    (/\ pc = "rewritten"
     /\ subject.op \in {"ADD", "SADD", "MUL", "SMUL", "AND", "OR", "XOR"}
     /\ NestedWithConstants(subject)
     /\ NoIdentityOrAbsorptionMatch(subject)) =>
        LET inner == OperationChild(subject)
            x == OperationChild(inner)
            a == ConstantChild(inner).w
            b == ConstantChild(subject).w
        IN  result = Op(subject.op, <<x, Const(Combined(subject.op, a, b))>>)

\* C15: for an associative opcode op, an operation x and constants a, b
\* such that no identity or absorption rule matches, apply on op(op(x,a),b),
\* op(op(a,x),b), op(b,op(x,a)) and op(b,op(a,x)) returns
\* op(x, Constant(fn(a,b))), the constants combined and not moved outside,
\* except that for op = XOR and a = b the XOR cancellation rule comes first
\* and apply returns x alone.
C15_ConstantsCombinedUnlessCancelled ==
    (/\ pc = "rewritten"
     /\ subject.op \in {"ADD", "SADD", "MUL", "SMUL", "AND", "OR", "XOR"}
     /\ NestedWithConstants(subject)
     /\ NoIdentityOrAbsorptionMatch(subject)) =>
        LET inner == OperationChild(subject)
            x == OperationChild(inner)
            a == ConstantChild(inner).w
            b == ConstantChild(subject).w
        IN  IF XorOfEqualConstants(subject)
            THEN result = x
            ELSE result = Op(subject.op, <<x, Const(Combined(subject.op, a, b))>>)

\* MUL(b, MUL(a, x)) with wrapping product a*b was rewritten to
\* MUL(x, a*b).
C15_Witness ==
    /\ pc = "rewritten"
    /\ subject.op = "MUL"
    /\ NestedWithConstants(subject)
    /\ NoIdentityOrAbsorptionMatch(subject)
    /\ subject.ch[1].k = "const"
    /\ subject.ch[2].ch[1].k = "const"
    /\ subject.ch[1].w * subject.ch[2].ch[1].w > MaxWord
    /\ result = Op("MUL", <<subject.ch[2].ch[2],
                            Const((subject.ch[1].w * subject.ch[2].ch[1].w) % Modulus)>>)

\* The opcode added to the subtraction sub.
AddOf(sub) == IF sub = "SUB" THEN "ADD" ELSE "SADD"

\* C16: for (ADD, SUB) and (SADD, SSUB), an operation x and constants a, b
\* with b # 0, apply on SUB(ADD(x,a),b) and on SUB(ADD(a,x),b) returns
\* SUB(x, Constant(b-a)) when a < b as unsigned words and
\* ADD(x, Constant(a-b)) otherwise; the constant is the difference that
\* does not wrap.
C16_SubOfAddKeepsDifference ==
    (/\ pc = "rewritten"
     /\ subject.op \in {"SUB", "SSUB"}
     /\ Len(subject.ch) = 2
     /\ subject.ch[2].k = "const"
     /\ subject.ch[2].w # 0
     /\ subject.ch[1].op = AddOf(subject.op)
     /\ MixedPair(subject.ch[1])) =>
        LET x == OperationChild(subject.ch[1])
            a == ConstantChild(subject.ch[1]).w
            b == subject.ch[2].w
        IN  result = IF a < b THEN Op(subject.op, <<x, Const(b - a)>>)
                     ELSE Op(AddOf(subject.op), <<x, Const(a - b)>>)

\* SSUB(SADD(a, x), b) with a < b was rewritten to SSUB(x, b - a).
C16_Witness ==
    /\ pc = "rewritten"
    /\ subject.op = "SSUB"
    /\ Len(subject.ch) = 2
    /\ subject.ch[1].op = "SADD"
    /\ MixedPair(subject.ch[1])
    /\ subject.ch[1].ch[1].k = "const"
    /\ subject.ch[2].k = "const"
    /\ subject.ch[1].ch[1].w > 0
    /\ subject.ch[1].ch[1].w < subject.ch[2].w
    /\ result = Op("SSUB", <<subject.ch[1].ch[2],
                             Const(subject.ch[2].w - subject.ch[1].ch[1].w)>>)

\* C17: for SUB and SSUB, constants a, b and any expression x, apply on
\* SUB(Constant b, SUB(x, Constant a)) and on
\* SUB(Constant b, SUB(Constant a, x)) returns no change.
C17_ReversedSubtractionUntouched ==
    (/\ pc = "rewritten"
     /\ subject.op \in {"SUB", "SSUB"}
     /\ Len(subject.ch) = 2
     /\ subject.ch[1].k = "const"
     /\ subject.ch[2].op = subject.op
     /\ Len(subject.ch[2].ch) = 2
     /\ "const" \in {subject.ch[2].ch[1].k, subject.ch[2].ch[2].k}) =>
        /\ applied = 0
        /\ result = None

\* SUB(b, SUB(a, x)) was handed to apply beside the rule
\* (A - X) - B -> (A - B) - X, which does not match it, and came back
\* unchanged.
C17_Witness ==
    /\ pc = "rewritten"
    /\ subject.op = "SUB"
    /\ Len(subject.ch) = 2
    /\ subject.ch[1].k = "const"
    /\ subject.ch[2].op = "SUB"
    /\ Len(subject.ch[2].ch) = 2
    /\ subject.ch[2].ch[1].k = "const"
    /\ subject.ch[2].ch[2].k = "op"
    /\ catalog[ruleNo].lhs = Op("SUB", <<Op("SUB", <<A, X>>), B>>)
    /\ ~matched
    /\ applied = 0
    /\ result = None

\* C18: apply on ISZERO(ISZERO(x)) returns x when the root opcode of x is
\* EQ, LT, SLT, GT or SGT, returns ISZERO of x's operand when x is an
\* ISZERO, and returns no change for every other x.
C18_DoubleNegationOnlyOnBooleans ==
    (/\ pc = "rewritten"
     /\ subject.op = "ISZERO"
     /\ Len(subject.ch) = 1
     /\ subject.ch[1].op = "ISZERO"
     /\ Len(subject.ch[1].ch) = 1) =>
        LET x == subject.ch[1].ch[1]
        IN  IF x.op \in {"EQ", "LT", "SLT", "GT", "SGT"}
            THEN applied # 0 /\ result = x
            ELSE IF x.op = "ISZERO"
            THEN applied # 0 /\ result = Op("ISZERO", x.ch)
            ELSE applied = 0 /\ result = None

\* ISZERO(ISZERO(x)) with x an addition was handed to apply beside a
\* double-negation rule and came back unchanged.
C18_Witness ==
    /\ pc = "rewritten"
    /\ subject.op = "ISZERO"
    /\ Len(subject.ch) = 1
    /\ subject.ch[1].op = "ISZERO"
    /\ Len(subject.ch[1].ch) = 1
    /\ subject.ch[1].ch[1].op = "ADD"
    /\ catalog[ruleNo].lhs = Op("ISZERO", <<Op("ISZERO", <<Op("SGT", <<X, Y>>)>>)>>)
    /\ applied = 0
    /\ result = None

\* C20: in every catalog rule each AnyExpression placeholder (X, Y) occurs
\* at most once in the right-hand side (in each branch of it): no rewrite
\* duplicates an arbitrary subexpression.
C20_NoPlaceholderDuplicated ==
    pc = "inspected" =>
        \A id \in AnyExpression : Occurrences(Inspected.action, id) <= 1

\* A rule was read that matches X twice and builds a right-hand side with
\* X and Y once each.
C20_Witness ==
    /\ pc = "inspected"
    /\ Occurrences(Inspected.lhs, "X") + Occurrences(Inspected.lhs, "Y") = 2
    /\ Occurrences(Inspected.action, "X") = 1
    /\ Occurrences(Inspected.action, "Y") = 1
    /\ Inspected.action.ch[1].k = "op"

\* C19: repeated rewriting terminates: the driver, rewriting at any node
\* where a rule applies, reaches a tree on which no rule applies at any
\* node; it never goes round a cycle of trees.
C19_RewritingTerminates == <>(pc = "fixed")

\* The driver settled on the sum of two opcodes plus a combined constant
\* after more than one rewrite: started on (x + 1) + (y + 1).
C19_Witness ==
    /\ pc = "fixed"
    /\ subject = Op("ADD", <<Op("ADD", <<Op("CALLER", << >>), Const(2)>>),
                             Op("ADD", <<Op("ORIGIN", << >>), Const(2)>>)>>)
    /\ result = Op("ADD", <<Op("ADD", <<Op("CALLER", << >>), Op("ORIGIN", << >>)>>),
                            Const(4)>>)
    /\ applied # 0

====
